---- MODULE Spec2Model ----
(***************************************************************************)
(* HashTableSeparateChaining of Question1.py: a string-keyed hash table    *)
(* with separate chaining and load-factor-triggered growth.                *)
(*                                                                         *)
(* The table is the triple (capacity, buckets, size).  Bucket i of the     *)
(* Python list (0-based) is buckets[i + 1] here.  An entry is the pair     *)
(* <<key, value>>.  Python's None is the value None below; it is both a    *)
(* payload a caller may store (value: Any) and get's "not found" result.   *)
(***************************************************************************)
EXTENDS Integers, Sequences, FiniteSets, TLC

\* ---- bounds of the model ----
NumKeys == 4
NumSeeds == 2
\* Product objects created after the samples
MaxNew == 1

\* ---- the inputs ----
KeyNames == <<"", "a", "b", "c", "d", "e", "f", "g">>
Keys == {KeyNames[i] : i \in 1..NumKeys}

\* the SKUs of _seed_data's samples and their stock
SampleSkus == <<"SKU-0001", "SKU-0002", "SKU-0003", "SKU-0004", "SKU-0005",
                "SKU-0006", "SKU-0007", "SKU-0008", "SKU-0009", "SKU-0010">>
SampleStock == <<120, 300, 40, 75, 150, 90, 110, 25, 10, 80>>

\* outcomes of "SKU-" + 8 random characters and of "MISS-" + 8 random
\* characters (random.choices over A-Z0-9)
RandSkus == {"SKU-AAAAAAAA", "SKU-B0000000"}
RandMiss == {"MISS-AAAAAAAA", "MISS-B0000000"}

\* the SKUs a caller of insert_product, delete_product, edit_product uses
CallerSkus == {"SKU-0001", "MISS-AAAAAAAA"}

SkuNames == SampleSkus \o
            <<"SKU-AAAAAAAA", "SKU-B0000000", "MISS-AAAAAAAA", "MISS-B0000000">>
Skus == {SkuNames[i] : i \in 1..Len(SkuNames)}

AllKeyNames == KeyNames \o SkuNames
\* the place of each key in AllKeyNames, tabulated
KeyIdxOf ==
    [key \in {AllKeyNames[i] : i \in 1..Len(AllKeyNames)} |->
        CHOOSE i \in 1..Len(AllKeyNames) : AllKeyNames[i] = key]
KeyIdx(key) == KeyIdxOf[key]

None == "None"
Values == {None, "p1"}

\* constructor arguments tried: negative, zero, just below the floor, the
\* floor, above the floor
CtorArgs == {-1, 0, 4, 5, 11}

\* hash(key) of a str is a signed integer that depends on the per-process
\* hash seed; within one process it is a fixed function of the key.  The
\* seeds give: every key in one bucket at every capacity; some keys
\* colliding and some not; all keys colliding at capacity 5 only; all keys
\* colliding at capacity 11 only.
HashMult == <<0, 3, 5, 11, 7, 2>>
HashOff == <<-3, -20, -6, -13, 1, -9>>
Hash(s, key) == KeyIdx(key) * KeyIdx(key) * HashMult[s] + HashOff[s]

VARIABLES capacity, buckets, size, seed, op, ret, live

\* hist: what the calls so far did to each key (used where re-insertion is
\* followed).  The InventorySystem around the table: array is self.array,
\* products the Product objects by reference, pc the position inside
\* benchmark_search, bench its local variables.
VARIABLES hist, array, products, pc, bench

invVars == <<array, products, pc, bench>>

\* DirectedGraph of Question2.py: graph is self.graph (vertex -> set of
\* successors); gop is the last call with its arguments, gret what it
\* returned
VARIABLES graph, gop, gret

graphVars == <<graph, gop, gret>>

\* run_multithreaded_factorials of Question3.py.  numbers, rounds: the
\* arguments; round: the round r; tpc: the main thread's position; at: the
\* index of its start and join loops; threads[i]: the position of worker i;
\* wloc[i]: worker i's locals; timings, sizes: the round's dicts; clock:
\* the last value time.perf_counter_ns() returned; first_start, last_end,
\* all_times: the main thread's results
VARIABLES numbers, rounds, round, tpc, at, threads, wloc, timings, sizes, clock,
          first_start, last_end, all_times

threadVars == <<numbers, rounds, round, tpc, at, threads, wloc, timings, sizes,
                clock, first_start, last_end, all_times>>

\* what the calls on the table and on the InventorySystem leave alone
q23Vars == <<graphVars, threadVars>>

vars == <<capacity, buckets, size, seed, op, ret, live, hist, array,
          products, pc, bench, graphVars, threadVars>>

\* the table as one value
Table == [capacity |-> capacity, buckets |-> buckets, size |-> size]

Max(a, b) == IF a >= b THEN a ELSE b

\* __init__: capacity floored at 5, that many empty buckets, size 0
ConstructNoFloor(c) ==
    [capacity |-> c, buckets |-> [i \in 1..c |-> <<>>], size |-> 0]

Construct(c) ==
    [capacity |-> Max(5, c),
     buckets |-> [i \in 1..Max(5, c) |-> <<>>],
     size |-> 0]

\* _index: hash(key) % capacity (Python's %, non-negative for capacity > 0)
Index(t, key) == Hash(seed, key) % t.capacity

\* load_factor() > 0.75, i.e. size / capacity > 3/4 (exact for these sizes)
ShouldResizeHalf(t) == 2 * t.size > t.capacity

ShouldResizeLate(t) == t.size > t.capacity

ShouldResizeEager(t) == 16 * t.size > t.capacity

ShouldResize(t) == 4 * t.size > 3 * t.capacity

\* first position of key in a bucket, 0 when absent (the enumerate scan)
FindKeyFirstOnly(bucket, key) ==
    IF Len(bucket) > 0 /\ bucket[1][1] = key THEN 1 ELSE 0

FindKey(bucket, key) ==
    IF \E i \in 1..Len(bucket) : bucket[i][1] = key
    THEN CHOOSE i \in 1..Len(bucket) :
            /\ bucket[i][1] = key
            /\ \A j \in 1..(i - 1) : bucket[j][1] # key
    ELSE 0

\* [(k, v) for bucket in self._buckets for (k, v) in bucket]
RECURSIVE Flatten(_, _)
Flatten(bs, i) ==
    IF i > Len(bs) THEN <<>> ELSE bs[i] \o Flatten(bs, i + 1)

OldItemsDropLast(t) ==
    LET all == Flatten(t.buckets, 1)
    IN  SubSeq(all, 1, Len(all) - 1)

OldItems(t) == Flatten(t.buckets, 1)

\* insert, key found at position i of bucket idx: overwrite or refuse
InsertFoundIgnoreFlag(t, idx, i, key, value, allow_update) ==
    [t |-> [t EXCEPT !.buckets[idx + 1][i] = <<key, value>>],
     ret |-> TRUE, resizes |-> 0]

InsertFoundNoWrite(t, idx, i, key, value, allow_update) ==
    [t |-> t, ret |-> allow_update, resizes |-> 0]

InsertFoundBumpsSize(t, idx, i, key, value, allow_update) ==
    IF allow_update
    THEN [t |-> [t EXCEPT !.buckets[idx + 1][i] = <<key, value>>,
                          !.size = @ + 1],
          ret |-> TRUE, resizes |-> 0]
    ELSE [t |-> t, ret |-> FALSE, resizes |-> 0]

InsertFound(t, idx, i, key, value, allow_update) ==
    IF allow_update
    THEN [t |-> [t EXCEPT !.buckets[idx + 1][i] = <<key, value>>],
          ret |-> TRUE, resizes |-> 0]
    ELSE [t |-> t, ret |-> FALSE, resizes |-> 0]

\* insert, key absent: bucket.append((key, value)); self._size += 1
InsertAppendNoCount(t, idx, key, value) ==
    [t EXCEPT !.buckets[idx + 1] = Append(@, <<key, value>>)]

InsertAppend(t, idx, key, value) ==
    [t EXCEPT !.buckets[idx + 1] = Append(@, <<key, value>>),
              !.size = @ + 1]

\* insert and _resize call each other; the result of insert is the new
\* table, the returned bool and the number of resizes the call performed
RECURSIVE Insert(_, _, _, _), Resize(_, _), Reinsert(_, _, _),
          ReinsertStep(_, _, _)

Insert(t, key, value, allow_update) ==
    LET idx == Index(t, key)
        i == FindKey(t.buckets[idx + 1], key)
    IN  IF i # 0
        THEN InsertFound(t, idx, i, key, value, allow_update)
        ELSE LET t1 == InsertAppend(t, idx, key, value)
             IN  IF ShouldResize(t1)
                 THEN LET r == Resize(t1, t1.capacity * 2 + 1)
                      IN  [t |-> r.t, ret |-> TRUE, resizes |-> r.resizes + 1]
                 ELSE [t |-> t1, ret |-> TRUE, resizes |-> 0]

\* self.insert(k, v, allow_update=True) of one old item
ReinsertStep(acc, k, v) ==
    LET r == Insert(acc.t, k, v, TRUE)
    IN  [t |-> r.t, resizes |-> acc.resizes + r.resizes]

\* for k, v in old_items: ...  (the table after each item is bound as a
\* value before the next item is taken)
Reinsert(acc, items, n) ==
    IF n > Len(items)
    THEN acc
    ELSE Reinsert(CHOOSE next \in
                     {ReinsertStep(a, items[n][1], items[n][2]) : a \in {acc}} :
                     TRUE,
                  items, n + 1)

ResizeKeepsBuckets(t, new_capacity) ==
    [t |-> [capacity |-> Max(5, new_capacity),
            buckets |-> [i \in 1..Max(5, new_capacity) |->
                            IF i <= t.capacity THEN t.buckets[i] ELSE <<>>],
            size |-> t.size],
     resizes |-> 0]

Resize(t, new_capacity) ==
    Reinsert([t |-> Construct(new_capacity), resizes |-> 0], OldItems(t), 1)

\* get: the value of the first entry of key's bucket with that key, else None
GetReturnsLast(t, key) ==
    LET bucket == t.buckets[Index(t, key) + 1]
        i == FindKey(bucket, key)
    IN  IF i # 0 THEN bucket[i][2]
        ELSE IF Len(bucket) > 0 THEN bucket[Len(bucket)][2] ELSE None

Get(t, key) ==
    LET bucket == t.buckets[Index(t, key) + 1]
    IN  IF \E i \in 1..Len(bucket) : bucket[i][1] = key
        THEN LET i == CHOOSE i \in 1..Len(bucket) :
                        /\ bucket[i][1] = key
                        /\ \A j \in 1..(i - 1) : bucket[j][1] # key
             IN  bucket[i][2]
        ELSE None

\* contains: self.get(key) is not None
Contains(t, key) == Get(t, key) # None

\* bucket.pop(i)
Pop(bucket, i) == SubSeq(bucket, 1, i - 1) \o SubSeq(bucket, i + 1, Len(bucket))

\* delete: pop the first entry with that key and decrement size, else False
DeleteNoDecrement(t, key) ==
    LET idx == Index(t, key)
        i == FindKey(t.buckets[idx + 1], key)
    IN  IF i # 0
        THEN [t |-> [t EXCEPT !.buckets[idx + 1] = Pop(@, i)], ret |-> TRUE]
        ELSE [t |-> t, ret |-> FALSE]

DeletePopFirst(t, key) ==
    LET idx == Index(t, key)
        i == FindKey(t.buckets[idx + 1], key)
    IN  IF i # 0
        THEN [t |-> [t EXCEPT !.buckets[idx + 1] = Pop(@, 1),
                              !.size = @ - 1],
              ret |-> TRUE]
        ELSE [t |-> t, ret |-> FALSE]

DeleteShrinks(t, key) ==
    LET idx == Index(t, key)
        i == FindKey(t.buckets[idx + 1], key)
        t1 == [t EXCEPT !.buckets[idx + 1] = Pop(@, i), !.size = @ - 1]
    IN  IF i # 0
        THEN [t |-> IF 4 * t1.size < t1.capacity
                    THEN Resize(t1, (t1.capacity - 1) \div 2).t
                    ELSE t1,
              ret |-> TRUE]
        ELSE [t |-> t, ret |-> FALSE]

DeleteTombstone(t, key) ==
    LET idx == Index(t, key)
        i == FindKey(t.buckets[idx + 1], key)
    IN  IF i # 0 /\ t.buckets[idx + 1][i][2] # None
        THEN [t |-> [t EXCEPT !.buckets[idx + 1][i] = <<key, None>>,
                              !.size = @ - 1],
              ret |-> TRUE]
        ELSE [t |-> t, ret |-> FALSE]

Delete(t, key) ==
    LET idx == Index(t, key)
        bucket == t.buckets[idx + 1]
    IN  IF \E i \in 1..Len(bucket) : bucket[i][1] = key
        THEN LET i == CHOOSE i \in 1..Len(bucket) :
                        /\ bucket[i][1] = key
                        /\ \A j \in 1..(i - 1) : bucket[j][1] # key
             IN  [t |-> [t EXCEPT !.buckets[idx + 1] = Pop(@, i),
                                  !.size = @ - 1],
                  ret |-> TRUE]
        ELSE [t |-> t, ret |-> FALSE]

\* __len__
TableLen(t) == t.size

\* items: one full sweep, bucket by bucket and in bucket order
ItemsFirstBucketOnly(t) ==
    LET used == {b \in 1..Len(t.buckets) : Len(t.buckets[b]) > 0}
    IN  IF used = {}
        THEN <<>>
        ELSE t.buckets[CHOOSE b \in used : \A c \in used : b <= c]

Items(t) == Flatten(t.buckets, 1)

\* ---- InventorySystem ----
\* A Product object is known by its reference; products[i] holds the fields
\* of the object RefNames[i] (sku, and stock standing for the editable
\* fields name, category, price, stock).  The table and the array hold
\* references.
RefNames == <<"o1", "o2", "o3", "o4", "o5", "o6", "o7", "o8", "o9", "o10",
              "o11", "o12", "o13", "o14", "o15", "o16", "o17", "o18">>
RefIdxOf ==
    [ref \in {RefNames[i] : i \in 1..Len(RefNames)} |->
        CHOOSE i \in 1..Len(RefNames) : RefNames[i] = ref]
RefIdx(ref) == RefIdxOf[ref]
Product(sku, stock) == [sku |-> sku, stock |-> stock]
SkuOf(inv, ref) == inv.products[RefIdx(ref)].sku

\* the system as one value: self.table, self.array and the objects
Inventory == [t |-> Table, array |-> array, products |-> products]

\* a Product(...) the caller built is stored in both containers
StoreNew(inv, t, sku, stock) ==
    [t |-> t,
     array |-> Append(inv.array, RefNames[Len(inv.products) + 1]),
     products |-> Append(inv.products, Product(sku, stock))]

\* _seed_data: table.insert(p.sku, p); array.append(p) for the ten samples
\* (each intermediate system is bound as a value before the next sample)
SeedStep(inv, n) ==
    LET ref == RefNames[Len(inv.products) + 1]
        r == Insert(inv.t, SampleSkus[n], ref, TRUE)
    IN  StoreNew(inv, r.t, SampleSkus[n], SampleStock[n])

RECURSIVE SeedData(_, _)
SeedData(inv, n) ==
    IF n > Len(SampleSkus)
    THEN inv
    ELSE SeedData(CHOOSE next \in {SeedStep(i, n) : i \in {inv}} : TRUE, n + 1)

\* InventorySystem.__init__
InventoryConstruct(c) ==
    SeedData([t |-> Construct(c), array |-> <<>>, products |-> <<>>], 1)

\* insert_product: the array is appended to only when the table took it
InsertProductAlwaysAppends(inv, sku, stock) ==
    LET ref == RefNames[Len(inv.products) + 1]
        r == Insert(inv.t, sku, ref, FALSE)
    IN  [inv |-> StoreNew(inv, r.t, sku, stock), ret |-> r.ret]

InsertProduct(inv, sku, stock) ==
    LET ref == RefNames[Len(inv.products) + 1]
        r == Insert(inv.t, sku, ref, FALSE)
    IN  IF r.ret
        THEN [inv |-> StoreNew(inv, r.t, sku, stock), ret |-> TRUE]
        ELSE [inv |-> inv, ret |-> FALSE]

\* for i, item in enumerate(self.array): if item.sku == sku: ...
\* the place of the first array item with that sku, 0 when there is none
RECURSIVE ScanFrom(_, _, _)
ScanFrom(inv, sku, i) ==
    IF i > Len(inv.array)
    THEN 0
    ELSE IF SkuOf(inv, inv.array[i]) = sku
         THEN i
         ELSE ScanFrom(inv, sku, i + 1)

Scan(inv, sku) == ScanFrom(inv, sku, 1)

\* benchmark_search's linear_search: the first item with that sku, or None
RECURSIVE LinearSearchFrom(_, _, _)
LinearSearchFrom(inv, sku, i) ==
    IF i > Len(inv.array)
    THEN None
    ELSE IF SkuOf(inv, inv.array[i]) = sku
         THEN inv.array[i]
         ELSE LinearSearchFrom(inv, sku, i + 1)

LinearSearchNoStop(inv, sku) ==
    IF Len(inv.array) > 0 /\ sku \in Skus
    THEN inv.array[Len(inv.array)]
    ELSE None

LinearSearch(inv, sku) == LinearSearchFrom(inv, sku, 1)

\* delete_product: table.delete(sku), then pop the first array item with it
DeleteProduct(inv, sku) ==
    IF Get(inv.t, sku) = None
    THEN [inv |-> inv, ret |-> FALSE]
    ELSE LET i == Scan(inv, sku)
         IN  [inv |-> [inv EXCEPT
                         !.t = Delete(inv.t, sku).t,
                         !.array = IF i # 0 THEN Pop(@, i) ELSE @],
              ret |-> TRUE]

\* edit_product: the object the table holds is changed in place; given is
\* whether a field was passed at all
EditProduct(inv, sku, given, stock) ==
    LET p == Get(inv.t, sku)
    IN  IF p = None
        THEN [inv |-> inv, ret |-> FALSE]
        ELSE [inv |-> IF given
                      THEN [inv EXCEPT !.products[RefIdx(p)].stock = stock]
                      ELSE inv,
              ret |-> TRUE]

\* benchmark_search's local variables; done counts the turns of the
\* generation loop; snap is the table and the array as they were when the
\* query list was complete
NoBench ==
    [n_extra |-> 0, trials |-> 0, done |-> 0, new_items |-> <<>>,
     existing_keys |-> <<>>,
     miss_keys |-> <<>>, queries |-> <<>>, hash_seen |-> <<>>,
     hash_found |-> <<>>, array_seen |-> <<>>, array_found |-> <<>>,
     snap |-> <<>>]

\* one turn of the generation loop with the random sku drawn
BenchGenerate(inv, sku, stock) ==
    IF Contains(inv.t, sku)
    THEN inv
    ELSE LET ref == RefNames[Len(inv.products) + 1]
         IN  StoreNew(inv, Insert(inv.t, sku, ref, FALSE).t, sku, stock)

\* existing_keys = [p.sku for p in self.array]
ExistingKeys(inv) == [i \in 1..Len(inv.array) |-> SkuOf(inv, inv.array[i])]

\* random.choice(seq): the draws followed are the first and the last item
Choices(seq) == IF Len(seq) = 0 THEN {} ELSE {seq[1], seq[Len(seq)]}

\* the timed passes: the keys iterated and what each lookup returned
HashPassConsumes(b, inv) ==
    [b EXCEPT !.hash_seen = b.queries,
              !.hash_found = [i \in 1..Len(b.queries) |-> Get(inv.t, b.queries[i])],
              !.queries = <<>>]

HashPass(b, inv) ==
    [b EXCEPT !.hash_seen = b.queries,
              !.hash_found = [i \in 1..Len(b.queries) |-> Get(inv.t, b.queries[i])]]

ArrayPass(b, inv) ==
    [b EXCEPT !.array_seen = b.queries,
              !.array_found =
                 [i \in 1..Len(b.queries) |-> LinearSearch(inv, b.queries[i])]]

\* ---- the record of the last call and of what it returned ----
\* name: the call; allow_update: insert's flag; arg: the constructor's
\* argument; resizes: how many times the call ran _resize
OpRec(name, allow_update, arg, resizes) ==
    [name |-> name, allow_update |-> allow_update, arg |-> arg,
     resizes |-> resizes]

\* bool: what insert, delete or contains returned; val: what get returned;
\* items: the pairs a sweep of items() yielded
RetRec(b, v) == [bool |-> b, val |-> v, items |-> <<>>]

\* ---- the state machine ----
\* no InventorySystem has been constructed
NoInventory ==
    /\ array = <<>>
    /\ products = <<>>
    /\ pc = "none"
    /\ bench = NoBench

\* no DirectedGraph has been constructed
NoGraph ==
    /\ graph = <<>>
    /\ gop = [name |-> "none", src |-> "", dst |-> "", raised |-> FALSE]
    /\ gret = FALSE

\* run_multithreaded_factorials has not been called
NoThreads ==
    /\ numbers = <<>>
    /\ rounds = 0
    /\ round = 0
    /\ tpc = "none"
    /\ at = 0
    /\ threads = <<>>
    /\ wloc = <<>>
    /\ timings = <<>>
    /\ sizes = <<>>
    /\ clock = 0
    /\ first_start = 0
    /\ last_end = 0
    /\ all_times = <<>>

\* live is the history of the calls: the keys inserted and not deleted since
Init ==
    /\ seed \in 1..NumSeeds
    /\ \E c \in CtorArgs :
         /\ capacity = Construct(c).capacity
         /\ buckets = Construct(c).buckets
         /\ size = Construct(c).size
         /\ op = OpRec("init", FALSE, c, 0)
    /\ ret = RetRec(FALSE, None)
    /\ live = {}
    /\ hist = [key \in Keys |-> "never"]
    /\ NoInventory
    /\ NoGraph
    /\ NoThreads

\* the table alone: no InventorySystem around it, no history kept
TableOnly == UNCHANGED <<hist, array, products, pc, bench, q23Vars>>

DoInsert(key, value, allow_update) ==
    \E r \in {Insert(Table, key, value, allow_update)} :
        /\ capacity' = r.t.capacity
        /\ buckets' = r.t.buckets
        /\ size' = r.t.size
        /\ op' = OpRec("insert", allow_update, 0, r.resizes)
        /\ ret' = RetRec(r.ret, None)
        /\ live' = live \cup {key}
        /\ UNCHANGED seed
        /\ TableOnly

DoDelete(key) ==
    \E r \in {Delete(Table, key)} :
        /\ capacity' = r.t.capacity
        /\ buckets' = r.t.buckets
        /\ size' = r.t.size
        /\ op' = OpRec("delete", FALSE, 0, 0)
        /\ ret' = RetRec(r.ret, None)
        /\ live' = live \ {key}
        /\ UNCHANGED seed
        /\ TableOnly

DoGet(key) ==
    /\ op' = OpRec("get", FALSE, 0, 0)
    /\ ret' = RetRec(FALSE, Get(Table, key))
    /\ UNCHANGED <<capacity, buckets, size, seed, live>>
    /\ TableOnly

DoContains(key) ==
    /\ op' = OpRec("contains", FALSE, 0, 0)
    /\ ret' = RetRec(Contains(Table, key), None)
    /\ UNCHANGED <<capacity, buckets, size, seed, live>>
    /\ TableOnly

DoItems ==
    /\ op' = OpRec("items", FALSE, 0, 0)
    /\ ret' = [RetRec(FALSE, None) EXCEPT !.items = Items(Table)]
    /\ UNCHANGED <<capacity, buckets, size, seed, live>>
    /\ TableOnly

Next ==
    \/ \E key \in Keys, value \in Values, allow_update \in BOOLEAN :
          DoInsert(key, value, allow_update)
    \/ \E key \in Keys : DoDelete(key)
    \/ \E key \in Keys : DoGet(key)
    \/ \E key \in Keys : DoContains(key)
    \/ DoItems

Spec == Init /\ [][Next]_vars

\* ---- the table with the history of each key followed ----
\* hist[key]: "never" inserted; "in" the table; "gone" after a delete that
\* returned True; "back" when the last call re-inserted it after "gone"
Settled(h) == IF h = "back" THEN "in" ELSE h

HistInsert(key, value, allow_update) ==
    \E r \in {Insert(Table, key, value, allow_update)} :
        /\ capacity' = r.t.capacity
        /\ buckets' = r.t.buckets
        /\ size' = r.t.size
        /\ op' = OpRec("insert", allow_update, 0, r.resizes)
        /\ ret' = RetRec(r.ret, None)
        /\ live' = live \cup {key}
        /\ hist' = [k \in Keys |->
                      IF k = key /\ r.ret
                      THEN IF hist[k] = "gone" THEN "back" ELSE "in"
                      ELSE Settled(hist[k])]
        /\ UNCHANGED seed
        /\ UNCHANGED <<invVars, q23Vars>>

HistDelete(key) ==
    \E r \in {Delete(Table, key)} :
        /\ capacity' = r.t.capacity
        /\ buckets' = r.t.buckets
        /\ size' = r.t.size
        /\ op' = OpRec("delete", FALSE, 0, 0)
        /\ ret' = RetRec(r.ret, None)
        /\ live' = live \ {key}
        /\ hist' = [k \in Keys |->
                      IF k = key /\ r.ret THEN "gone" ELSE Settled(hist[k])]
        /\ UNCHANGED seed
        /\ UNCHANGED <<invVars, q23Vars>>

HistNext ==
    \/ \E key \in Keys, value \in Values, allow_update \in BOOLEAN :
          HistInsert(key, value, allow_update)
    \/ \E key \in Keys : HistDelete(key)

SpecHist == Init /\ [][HistNext]_vars

\* ---- the InventorySystem: CRUD calls and benchmark_search step by step ----
\* op and ret record the calls made on a bare table; the calls on the
\* InventorySystem are followed through the containers themselves
\* capacities passed to InventorySystem(...): the floor (the samples resize
\* it twice) and one the samples just fit (the next product resizes it)
InvCtorArgs == {5, 14}

\* benchmark_search's arguments: no extra record or one; one trial (an
\* empty miss pool, trials // 2 = 0) or two
ExtraArgs == {0, 1}
TrialArgs == {1, 2}

\* the stock of a Product made after the samples, and the stock an edit sets
NewStock == 1
EditStock == 0

SetInventory(inv) ==
    /\ capacity' = inv.t.capacity
    /\ buckets' = inv.t.buckets
    /\ size' = inv.t.size
    /\ array' = inv.array
    /\ products' = inv.products

InvInit ==
    /\ seed \in 1..NumSeeds
    /\ \E c \in InvCtorArgs :
         \E inv \in {InventoryConstruct(c)} :
            /\ capacity = inv.t.capacity
            /\ buckets = inv.t.buckets
            /\ size = inv.t.size
            /\ array = inv.array
            /\ products = inv.products
            /\ op = OpRec("init", FALSE, c, 0)
    /\ ret = RetRec(FALSE, None)
    /\ live = {}
    /\ hist = [key \in Keys |-> "never"]
    /\ pc = "idle"
    /\ bench = NoBench
    /\ NoGraph
    /\ NoThreads

DoInsertProduct(sku) ==
    /\ pc = "idle"
    /\ Len(products) < Len(SampleSkus) + MaxNew
    /\ \E r \in {InsertProduct(Inventory, sku, NewStock)} :
          SetInventory(r.inv)
    /\ UNCHANGED q23Vars
    /\ UNCHANGED <<seed, op, ret, live, hist, pc, bench>>

DoDeleteProduct(sku) ==
    /\ pc = "idle"
    /\ \E r \in {DeleteProduct(Inventory, sku)} :
          SetInventory(r.inv)
    /\ UNCHANGED q23Vars
    /\ UNCHANGED <<seed, op, ret, live, hist, pc, bench>>

DoEditProduct(sku, given) ==
    /\ pc = "idle"
    /\ \E r \in {EditProduct(Inventory, sku, given, EditStock)} :
          SetInventory(r.inv)
    /\ UNCHANGED q23Vars
    /\ UNCHANGED <<seed, op, ret, live, hist, pc, bench>>

\* benchmark_search(n_extra, trials) is entered.  Once MaxNew objects have
\* been made the generation loop is followed only for draws of SKUs that
\* are already stored (turns that make no object).
BenchStart(n_extra, trials) ==
    /\ pc = "idle"
    /\ Len(products) + n_extra > Len(SampleSkus) + MaxNew =>
          \E sku \in RandSkus : Contains(Table, sku)
    /\ pc' = "gen"
    /\ bench' = [NoBench EXCEPT !.n_extra = n_extra, !.trials = trials]
    /\ UNCHANGED q23Vars
    /\ UNCHANGED <<capacity, buckets, size, array, products, seed, op, ret,
                   live, hist>>

\* one turn of `for _ in range(n_extra)`
BenchGen ==
    /\ pc = "gen"
    /\ bench.done < bench.n_extra
    /\ \E sku \in RandSkus :
          /\ ~Contains(Table, sku) =>
                Len(products) < Len(SampleSkus) + MaxNew
          /\ SetInventory(BenchGenerate(Inventory, sku, NewStock))
          /\ bench' = [bench EXCEPT
                         !.done = @ + 1,
                         !.new_items = IF Contains(Table, sku)
                                       THEN @
                                       ELSE Append(@, RefNames[Len(products) + 1])]
    /\ UNCHANGED q23Vars
    /\ UNCHANGED <<seed, op, ret, live, hist, pc>>

\* existing_keys and miss_keys are built
BenchPools ==
    /\ pc = "gen"
    /\ bench.done = bench.n_extra
    /\ \E miss_keys \in [1..(bench.trials \div 2) -> RandMiss] :
          bench' = [bench EXCEPT !.existing_keys = ExistingKeys(Inventory),
                                 !.miss_keys = miss_keys]
    /\ pc' = "query"
    /\ UNCHANGED q23Vars
    /\ UNCHANGED <<capacity, buckets, size, array, products, seed, op, ret,
                   live, hist>>

\* one turn of `for _ in range(trials)`: the coin, then random.choice from
\* the pool, which raises IndexError on an empty pool
BenchQuery ==
    /\ pc = "query"
    /\ Len(bench.queries) < bench.trials
    /\ \E hit \in BOOLEAN :
          LET pool == IF hit THEN bench.existing_keys ELSE bench.miss_keys
          IN  IF Len(pool) = 0
              THEN /\ pc' = "raised"
                   /\ bench' = bench
              ELSE \E q \in Choices(pool) :
                     /\ pc' = IF Len(bench.queries) + 1 = bench.trials
                              THEN "hash" ELSE "query"
                     /\ bench' = [bench EXCEPT
                                    !.queries = Append(@, q),
                                    !.snap = IF Len(bench.queries) + 1 = bench.trials
                                             THEN [t |-> Table, array |-> array]
                                             ELSE @]
    /\ UNCHANGED q23Vars
    /\ UNCHANGED <<capacity, buckets, size, array, products, seed, op, ret,
                   live, hist>>

\* `for q in queries: self.table.get(q)`
BenchHashPass ==
    /\ pc = "hash"
    /\ bench' = HashPass(bench, Inventory)
    /\ pc' = "array"
    /\ UNCHANGED q23Vars
    /\ UNCHANGED <<capacity, buckets, size, array, products, seed, op, ret,
                   live, hist>>

\* `for q in queries: linear_search(q)`
BenchArrayPass ==
    /\ pc = "array"
    /\ bench' = ArrayPass(bench, Inventory)
    /\ pc' = "report"
    /\ UNCHANGED q23Vars
    /\ UNCHANGED <<capacity, buckets, size, array, products, seed, op, ret,
                   live, hist>>

\* the report is printed and benchmark_search returns
BenchReport ==
    /\ pc = "report"
    /\ pc' = "idle"
    /\ bench' = NoBench
    /\ UNCHANGED q23Vars
    /\ UNCHANGED <<capacity, buckets, size, array, products, seed, op, ret,
                   live, hist>>

InvNext ==
    \/ \E sku \in CallerSkus : DoInsertProduct(sku)
    \/ \E sku \in CallerSkus : DoDeleteProduct(sku)
    \/ \E sku \in CallerSkus, given \in BOOLEAN : DoEditProduct(sku, given)
    \/ \E n_extra \in ExtraArgs, trials \in TrialArgs :
          BenchStart(n_extra, trials)
    \/ BenchGen
    \/ BenchPools
    \/ BenchQuery
    \/ BenchHashPass
    \/ BenchArrayPass
    \/ BenchReport

SpecInv == InvInit /\ [][InvNext]_vars

\* ---- DirectedGraph and SlowGramApp.unfollow (Question2.py) ----
\* the objects used as vertices (Person objects, hashed by identity)
Verts == {"alice", "bob", "carol"}

\* addVertex: a new vertex gets an empty successor set
AddVertex(g, v) ==
    IF v \in DOMAIN g
    THEN g
    ELSE [x \in DOMAIN g \cup {v} |-> IF x = v THEN {} ELSE g[x]]

\* addEdge: both ends become vertices, then graph[src].add(dst)
AddEdge(g, src, dst) ==
    [AddVertex(AddVertex(g, src), dst) EXCEPT ![src] = @ \cup {dst}]

\* hasEdge
HasEdge(g, src, dst) == src \in DOMAIN g /\ dst \in g[src]

\* removeEdge; raised: a KeyError left the call (self.graph[src] of a
\* missing src, or set.remove of a missing dst)
RemoveEdgeUnguarded(g, src, dst) ==
    IF src \in DOMAIN g /\ dst \in g[src]
    THEN [g |-> [g EXCEPT ![src] = @ \ {dst}], ret |-> TRUE, raised |-> FALSE]
    ELSE [g |-> g, ret |-> FALSE, raised |-> TRUE]

RemoveEdge(g, src, dst) ==
    IF src \in DOMAIN g /\ dst \in g[src]
    THEN [g |-> [g EXCEPT ![src] = @ \ {dst}],
          ret |-> TRUE,
          raised |-> dst \notin g[src]]
    ELSE [g |-> g, ret |-> FALSE, raised |-> FALSE]

GraphOp(name, src, dst, raised) ==
    [name |-> name, src |-> src, dst |-> dst, raised |-> raised]

\* no table has been constructed
NoTable ==
    /\ capacity = 0
    /\ buckets = <<>>
    /\ size = 0
    /\ seed = 1
    /\ op = OpRec("none", FALSE, 0, 0)
    /\ ret = RetRec(FALSE, None)
    /\ live = {}
    /\ hist = [key \in Keys |-> "never"]

\* DirectedGraph()
GraphInit ==
    /\ graph = <<>>
    /\ gop = GraphOp("init", "", "", FALSE)
    /\ gret = FALSE
    /\ NoTable
    /\ NoInventory
    /\ NoThreads

GraphOnly ==
    UNCHANGED <<capacity, buckets, size, seed, op, ret, live, hist, invVars,
                threadVars>>

DoAddVertex(v) ==
    /\ graph' = AddVertex(graph, v)
    /\ gop' = GraphOp("addVertex", v, "", FALSE)
    /\ gret' = FALSE
    /\ GraphOnly

DoAddEdge(src, dst) ==
    /\ graph' = AddEdge(graph, src, dst)
    /\ gop' = GraphOp("addEdge", src, dst, FALSE)
    /\ gret' = FALSE
    /\ GraphOnly

DoRemoveEdge(src, dst) ==
    /\ \E rm \in {RemoveEdge(graph, src, dst)} :
          /\ graph' = rm.g
          /\ gop' = GraphOp("removeEdge", src, dst, rm.raised)
          /\ gret' = rm.ret
    /\ GraphOnly

\* SlowGramApp.unfollow: return self.mygraph.removeEdge(follower, followed)
DoUnfollow(follower, followed) ==
    /\ \E rm \in {RemoveEdge(graph, follower, followed)} :
          /\ graph' = rm.g
          /\ gop' = GraphOp("unfollow", follower, followed, rm.raised)
          /\ gret' = rm.ret
    /\ GraphOnly

DoHasEdge(src, dst) ==
    /\ gop' = GraphOp("hasEdge", src, dst, FALSE)
    /\ gret' = HasEdge(graph, src, dst)
    /\ UNCHANGED graph
    /\ GraphOnly

GraphNext ==
    \/ \E v \in Verts : DoAddVertex(v)
    \/ \E src \in Verts, dst \in Verts : DoAddEdge(src, dst)
    \/ \E src \in Verts, dst \in Verts : DoRemoveEdge(src, dst)
    \/ \E follower \in Verts, followed \in Verts : DoUnfollow(follower, followed)
    \/ \E src \in Verts, dst \in Verts : DoHasEdge(src, dst)

SpecGraph == GraphInit /\ [][GraphNext]_vars

\* ---- run_multithreaded_factorials (Question3.py) ----
\* the arguments tried: tuples of distinct numbers, one or two workers,
\* with and without a negative number; one round or two
NumberArgs == {<<3>>, <<-1>>, <<3, 5>>, <<-1, 3>>, <<5, -1>>}
RoundArgs == {1, 2}

\* factorial(n): raises ValueError for n < 0, else the product 2 * ... * n
RECURSIVE Product2To(_)
Product2To(n) == IF n < 2 THEN 1 ELSE n * Product2To(n - 1)

Factorial(n) ==
    IF n < 0
    THEN [raised |-> TRUE, val |-> 0]
    ELSE [raised |-> FALSE, val |-> Product2To(n)]

\* len(str(val)) of a non-negative int
RECURSIVE StrLen(_)
StrLen(val) == IF val < 10 THEN 1 ELSE 1 + StrLen(val \div 10)

\* the thread id f"n={n}"
Tid(n) == "n=" \o ToString(n)

\* d[key] = value on a dict
DictSet(d, key, value) ==
    [x \in DOMAIN d \cup {key} |-> IF x = key THEN value ELSE d[x]]

\* min(s for s, e in timings.values()), max(e for s, e in timings.values())
MinStart(d) ==
    CHOOSE s \in {d[x][1] : x \in DOMAIN d} :
        \A u \in {d[x][1] : x \in DOMAIN d} : s <= u

MaxEnd(d) ==
    CHOOSE e \in {d[x][2] : x \in DOMAIN d} :
        \A u \in {d[x][2] : x \in DOMAIN d} : e >= u

\* a worker's locals before it has run
NoLocals == [start |-> 0, val |-> 0, end |-> 0]

\* time.perf_counter_ns() is monotonic: the next reading is the last one
\* or later
Readings == {clock, clock + 1}

\* run_multithreaded_factorials(rounds, numbers) is entered, round 1 begins
ThreadInit ==
    /\ numbers \in NumberArgs
    /\ rounds \in RoundArgs
    /\ round = 1
    /\ tpc = "create"
    /\ at = 0
    /\ threads = <<>>
    /\ wloc = <<>>
    /\ timings = <<>>
    /\ sizes = <<>>
    /\ clock = 0
    /\ first_start = 0
    /\ last_end = 0
    /\ all_times = <<>>
    /\ NoTable
    /\ NoInventory
    /\ NoGraph

ThreadsOnly ==
    UNCHANGED <<capacity, buckets, size, seed, op, ret, live, hist, invVars,
                graphVars, numbers, rounds>>

\* for n in numbers: t = threading.Thread(...); threads.append(t)
CreateThreads ==
    /\ tpc = "create"
    /\ threads' = [i \in 1..Len(numbers) |-> "new"]
    /\ wloc' = [i \in 1..Len(numbers) |-> NoLocals]
    /\ tpc' = "start_all"
    /\ UNCHANGED <<round, at, timings, sizes, clock, first_start, last_end,
                   all_times>>
    /\ ThreadsOnly

\* start_all = time.perf_counter_ns()
ReadStartAll ==
    /\ tpc = "start_all"
    /\ clock' \in Readings
    /\ tpc' = "start"
    /\ at' = 1
    /\ UNCHANGED <<round, threads, wloc, timings, sizes, first_start,
                   last_end, all_times>>
    /\ ThreadsOnly

\* for t in threads: t.start()
StartThread ==
    /\ tpc = "start"
    /\ threads' = [threads EXCEPT ![at] = "start"]
    /\ at' = IF at = Len(threads) THEN 1 ELSE at + 1
    /\ tpc' = IF at = Len(threads) THEN "join" ELSE "start"
    /\ UNCHANGED <<round, wloc, timings, sizes, clock, first_start, last_end,
                   all_times>>
    /\ ThreadsOnly

\* for t in threads: t.join() -- returns once that thread has ended,
\* normally or by an exception
JoinThread ==
    /\ tpc = "join"
    /\ threads[at] \in {"done", "died"}
    /\ at' = IF at = Len(threads) THEN 0 ELSE at + 1
    /\ tpc' = IF at = Len(threads) THEN "end_all" ELSE "join"
    /\ UNCHANGED <<round, threads, wloc, timings, sizes, clock, first_start,
                   last_end, all_times>>
    /\ ThreadsOnly

\* end_all = time.perf_counter_ns()
ReadEndAll ==
    /\ tpc = "end_all"
    /\ clock' \in Readings
    /\ tpc' = "stats"
    /\ UNCHANGED <<round, at, threads, wloc, timings, sizes, first_start,
                   last_end, all_times>>
    /\ ThreadsOnly

\* first_start = min(...); last_end = max(...); all_times.append(total_ns)
\* min() of an empty sequence raises ValueError
ComputeStats ==
    /\ tpc = "stats"
    /\ IF DOMAIN timings = {}
       THEN /\ tpc' = "raised"
            /\ UNCHANGED <<first_start, last_end, all_times>>
       ELSE /\ tpc' = "report"
            /\ first_start' = MinStart(timings)
            /\ last_end' = MaxEnd(timings)
            /\ all_times' = Append(all_times, MaxEnd(timings) - MinStart(timings))
    /\ UNCHANGED <<round, at, threads, wloc, timings, sizes, clock>>
    /\ ThreadsOnly

\* the round's line is printed; the next round begins with fresh timings,
\* sizes and threads, or the function returns
Report ==
    /\ tpc = "report"
    /\ IF round < rounds
       THEN /\ round' = round + 1
            /\ tpc' = "create"
            /\ timings' = <<>>
            /\ sizes' = <<>>
            /\ threads' = <<>>
            /\ wloc' = <<>>
       ELSE /\ tpc' = "done"
            /\ UNCHANGED <<round, timings, sizes, threads, wloc>>
    /\ UNCHANGED <<at, clock, first_start, last_end, all_times>>
    /\ ThreadsOnly

WorkerFrame ==
    UNCHANGED <<round, tpc, at, first_start, last_end, all_times>>

\* worker: start = time.perf_counter_ns()
WorkerStart(i) ==
    /\ threads[i] = "start"
    /\ clock' \in Readings
    /\ wloc' = [wloc EXCEPT ![i].start = clock']
    /\ threads' = [threads EXCEPT ![i] = "factorial"]
    /\ UNCHANGED <<timings, sizes>>
    /\ WorkerFrame
    /\ ThreadsOnly

\* worker: val = factorial(n); an exception ends the thread
WorkerFactorial(i) ==
    /\ threads[i] = "factorial"
    /\ \E f \in {Factorial(numbers[i])} :
          /\ wloc' = [wloc EXCEPT ![i].val = f.val]
          /\ threads' = [threads EXCEPT
                            ![i] = IF f.raised THEN "died" ELSE "end"]
    /\ UNCHANGED <<timings, sizes, clock>>
    /\ WorkerFrame
    /\ ThreadsOnly

\* worker: end = time.perf_counter_ns()
WorkerEnd(i) ==
    /\ threads[i] = "end"
    /\ clock' \in Readings
    /\ wloc' = [wloc EXCEPT ![i].end = clock']
    /\ threads' = [threads EXCEPT ![i] = "timings"]
    /\ UNCHANGED <<timings, sizes>>
    /\ WorkerFrame
    /\ ThreadsOnly

\* worker: timings[tid] = (start, end)
WorkerTimings(i) ==
    /\ threads[i] = "timings"
    /\ timings' = DictSet(timings, Tid(numbers[i]),
                          <<wloc[i].start, wloc[i].end>>)
    /\ threads' = [threads EXCEPT ![i] = "sizes"]
    /\ UNCHANGED <<wloc, sizes, clock>>
    /\ WorkerFrame
    /\ ThreadsOnly

\* worker: sizes[tid] = len(str(val)); the thread ends
WorkerSizes(i) ==
    /\ threads[i] = "sizes"
    /\ sizes' = DictSet(sizes, Tid(numbers[i]), StrLen(wloc[i].val))
    /\ threads' = [threads EXCEPT ![i] = "done"]
    /\ UNCHANGED <<wloc, timings, clock>>
    /\ WorkerFrame
    /\ ThreadsOnly

ThreadNext ==
    \/ CreateThreads
    \/ ReadStartAll
    \/ StartThread
    \/ JoinThread
    \/ ReadEndAll
    \/ ComputeStats
    \/ Report
    \/ \E i \in 1..Len(threads) : WorkerStart(i)
    \/ \E i \in 1..Len(threads) : WorkerFactorial(i)
    \/ \E i \in 1..Len(threads) : WorkerEnd(i)
    \/ \E i \in 1..Len(threads) : WorkerTimings(i)
    \/ \E i \in 1..Len(threads) : WorkerSizes(i)

SpecThreads == ThreadInit /\ [][ThreadNext]_vars

\* ---- what is stored, read off the buckets without hashing ----
\* the positions <<bucket, place>> that hold an entry
Entries(t) ==
    UNION {{<<b, i>> : i \in 1..Len(t.buckets[b])} : b \in 1..Len(t.buckets)}

EntryAt(t, p) == t.buckets[p[1]][p[2]]

StoredKeys(t) == {EntryAt(t, p)[1] : p \in Entries(t)}

RECURSIVE SumLen(_, _)
SumLen(bs, i) == IF i > Len(bs) THEN 0 ELSE Len(bs[i]) + SumLen(bs, i + 1)

TypeOK ==
    /\ capacity \in Nat
    /\ size \in Int
    /\ seed \in 1..NumSeeds
    /\ live \subseteq Keys
    /\ op.name \in {"init", "insert", "delete", "get", "contains", "items"}
    /\ ret.bool \in BOOLEAN
    /\ ret.val \in Values

\* ---- the claims ----

\* C1: over every sequence of insert and delete calls (any keys, any
\* allow_update flags, resizes included), len(table) equals the number of
\* distinct keys inserted and not deleted since.
C1_LenCountsLiveKeys == TableLen(Table) = Cardinality(live)

C1_Witness ==
    /\ op.name = "insert"
    /\ ~op.allow_update
    /\ op.resizes > 0
    /\ Cardinality(live) = 4
    /\ TableLen(Table) = 4

\* C2: from every reachable table, insert(key, value, allow_update=True)
\* followed immediately by get(key) returns value, whether the insert
\* appends (with or without a resize) or overwrites.
C2_InsertThenGet ==
    \A key \in Keys, value \in Values :
        LET r == Insert(Table, key, value, TRUE)
        IN  /\ r.ret = TRUE
            /\ Get(r.t, key) = value

C2_Witness ==
    /\ op.name = "insert"
    /\ op.allow_update
    /\ op.resizes > 0
    /\ \E key \in StoredKeys(Table) : Get(Table, key) # None

\* C3: insert(key, value2, allow_update=False) on a stored key returns False
\* and changes nothing: the stored value, size, capacity and all buckets.
C3_DuplicateRejected ==
    \A key \in StoredKeys(Table), value2 \in Values :
        LET r == Insert(Table, key, value2, FALSE)
        IN  /\ r.ret = FALSE
            /\ r.t = Table
            /\ Get(r.t, key) = Get(Table, key)

C3_Witness ==
    /\ op.name = "insert"
    /\ ~op.allow_update
    /\ ~ret.bool
    /\ \E key \in StoredKeys(Table), value2 \in Values : Get(Table, key) # value2

\* C4: an insert that resizes loses and alters nothing: every key stored
\* before it has the same value after it, and the stored keys after it are
\* the old ones plus the inserted key.
C4_ResizeTransparent ==
    \A key \in Keys, value \in Values, allow_update \in BOOLEAN :
        LET r == Insert(Table, key, value, allow_update)
        IN  r.resizes > 0 =>
              /\ \A k \in StoredKeys(Table) : Get(r.t, k) = Get(Table, k)
              /\ StoredKeys(r.t) = StoredKeys(Table) \cup {key}
              /\ Get(r.t, key) = value

C4_Witness ==
    /\ op.resizes > 0
    /\ capacity = 11
    /\ size = 4
    /\ \E b \in 1..capacity : Len(buckets[b]) >= 2

\* C5: whenever delete(key) returns True, contains(key) is False right
\* after, len(table) is one less than before, and every other key keeps its
\* value.
C5_DeleteComplete ==
    \A key \in Keys :
        LET r == Delete(Table, key)
        IN  r.ret =>
              /\ ~Contains(r.t, key)
              /\ TableLen(r.t) = TableLen(Table) - 1
              /\ StoredKeys(r.t) = StoredKeys(Table) \ {key}
              /\ \A k \in Keys \ {key} : Get(r.t, k) = Get(Table, k)

C5_Witness ==
    /\ op.name = "delete"
    /\ ret.bool
    /\ \E b \in 1..capacity : Len(buckets[b]) >= 2

\* C6: after construction and after each insert or delete returns, the size
\* counter equals the sum of the lengths of all buckets.
C6_SizeIsSumOfBuckets == size = SumLen(buckets, 1)

C6_Witness ==
    /\ op.name = "delete"
    /\ ret.bool
    /\ capacity = 11
    /\ size = 3
    /\ SumLen(buckets, 1) = 3

\* C7: in every reachable table no two entries, in the same bucket or in
\* different ones, have the same key.
C7_KeysUnique ==
    \A p \in Entries(Table), q \in Entries(Table) :
        p # q => EntryAt(Table, p)[1] # EntryAt(Table, q)[1]

C7_Witness ==
    /\ op.name = "insert"
    /\ ~ret.bool
    /\ \E b \in 1..capacity : Len(buckets[b]) >= 3

\* C8: capacity is at least 5 in every reachable state: a constructor
\* argument below 5 (zero and negatives too) gives capacity 5, a resize
\* keeps capacity >= 5, and there are exactly capacity buckets.
C8_CapacityFloor ==
    /\ capacity >= 5
    /\ Len(buckets) = capacity
    /\ (op.name = "init" /\ op.arg < 5) => capacity = 5
    /\ op.name = "init" => capacity = Max(5, op.arg)

C8_Witness ==
    /\ op.name = "init"
    /\ op.arg < 0
    /\ capacity = 5

\* C9: contains(key) holds exactly when an entry with that key is stored,
\* for every payload (None included); so it holds for every key whose
\* insert returned True and that was not deleted since.
C9_ContainsIffStored ==
    /\ \A key \in Keys : Contains(Table, key) <=> key \in StoredKeys(Table)
    /\ \A key \in live : Contains(Table, key)

\* C10: on a key that is not stored (the empty string and deleted keys
\* included) get returns None, delete returns False, contains returns False,
\* the bucket looked at exists, and the table is left as it was.
C10_MissIsHarmless ==
    \A key \in Keys \ StoredKeys(Table) :
        /\ Index(Table, key) + 1 \in DOMAIN buckets
        /\ Get(Table, key) = None
        /\ Delete(Table, key).ret = FALSE
        /\ Delete(Table, key).t = Table
        /\ Contains(Table, key) = FALSE

C10_Witness ==
    /\ op.name = "delete"
    /\ ~ret.bool
    /\ "" \notin StoredKeys(Table)
    /\ \E b \in 1..capacity :
          /\ Len(buckets[b]) >= 1
          /\ b = Index(Table, "") + 1
          /\ buckets[b][Len(buckets[b])][2] # None

\* C15: an insert resizes exactly when it appended a new entry and the
\* size/capacity it reached is above 0.75 (4*size > 3*capacity); the new
\* capacity is then old_capacity*2+1, and otherwise the capacity is as it
\* was.  At capacity 5 the first three distinct keys do not resize and the
\* fourth resizes to 11 with all four keys retrievable.
C15_ResizePolicy ==
    \A stored \in {StoredKeys(Table)} :
      \A key \in Keys, value \in Values, allow_update \in BOOLEAN :
        \A r \in {Insert(Table, key, value, allow_update)} :
          LET appended == key \notin stored
          IN  /\ r.resizes > 0 <=> (appended /\ 4 * (size + 1) > 3 * capacity)
              /\ r.resizes > 0 => r.t.capacity = capacity * 2 + 1
              /\ r.resizes = 0 => r.t.capacity = capacity
              /\ (capacity = 5 /\ appended /\ size < 3) => r.resizes = 0
              /\ (capacity = 5 /\ appended /\ size = 3) =>
                    /\ r.t.capacity = 11
                    /\ Cardinality(StoredKeys(r.t)) = 4
                    /\ Get(r.t, key) = value
                    /\ \A k \in stored : Get(r.t, k) = Get(Table, k)

C15_Witness ==
    /\ op.name = "insert"
    /\ op.resizes = 1
    /\ capacity = 11
    /\ Cardinality(StoredKeys(Table)) = 4
    /\ \A k \in StoredKeys(Table) : Get(Table, k) = "p1"

\* C16: insert(key, value, allow_update=True) on a stored key returns True,
\* replaces that key's value only, leaves size, capacity and every other
\* entry as they were, and never resizes.
C16_UpdateInPlace ==
    \A key \in StoredKeys(Table), value \in Values :
        \A r \in {Insert(Table, key, value, TRUE)} :
            /\ r.ret = TRUE
            /\ r.resizes = 0
            /\ r.t.size = size
            /\ r.t.capacity = capacity
            /\ Entries(r.t) = Entries(Table)
            /\ \A p \in Entries(Table) :
                  EntryAt(r.t, p) =
                     IF EntryAt(Table, p)[1] = key
                     THEN <<key, value>>
                     ELSE EntryAt(Table, p)

C16_Witness ==
    /\ op.name = "insert"
    /\ op.allow_update
    /\ ret.bool
    /\ op.resizes = 0
    /\ 4 * (size + 1) > 3 * capacity
    /\ \E p \in Entries(Table), q \in Entries(Table) :
          EntryAt(Table, p)[2] # EntryAt(Table, q)[2]

\* C17: capacity only grows: delete never changes it and no call lowers
\* it, also when the last entry has been deleted.
C17_CapacityGrowthOnly ==
    /\ \A key \in Keys :
          Delete(Table, key).t.capacity = capacity
    /\ \A key \in Keys, value \in Values, allow_update \in BOOLEAN :
          Insert(Table, key, value, allow_update).t.capacity >= capacity

C17_Witness ==
    /\ op.name = "delete"
    /\ ret.bool
    /\ size = 0
    /\ capacity > 5

\* C19: a sweep of items() with no mutation yields every stored (key, value)
\* pair once and nothing else: as many pairs as len(table), no key twice,
\* each value the one get(key) returns; a second sweep yields the same.
C19_ItemsSweep ==
    op.name = "items" =>
        /\ Len(ret.items) = TableLen(Table)
        /\ {ret.items[i] : i \in 1..Len(ret.items)} =
              {EntryAt(Table, p) : p \in Entries(Table)}
        /\ \A i \in 1..Len(ret.items), j \in 1..Len(ret.items) :
              i # j => ret.items[i][1] # ret.items[j][1]
        /\ \A i \in 1..Len(ret.items) :
              Get(Table, ret.items[i][1]) = ret.items[i][2]
        /\ Items(Table) = ret.items

C19_Witness ==
    /\ op.name = "items"
    /\ Len(ret.items) = 4
    /\ \E b \in 1..capacity : Len(buckets[b]) >= 2
    /\ \E i \in 1..4, j \in 1..4 : ret.items[i][2] # ret.items[j][2]

\* C18: inserting a key again after its delete returned True is a fresh
\* insert: it returns True also with allow_update=False, size grows by one,
\* get(key) returns the new value, and it resizes exactly when an append
\* crossing the threshold would.
C18_ReinsertIsFresh ==
    \A key \in Keys :
        hist[key] = "gone" =>
            \A value \in Values, allow_update \in BOOLEAN :
                LET r == Insert(Table, key, value, allow_update)
                IN  /\ r.ret = TRUE
                    /\ r.t.size = size + 1
                    /\ Get(r.t, key) = value
                    /\ StoredKeys(r.t) = StoredKeys(Table) \cup {key}
                    /\ r.resizes > 0 <=> 4 * (size + 1) > 3 * capacity

C18_Witness ==
    /\ op.name = "insert"
    /\ ~op.allow_update
    /\ ret.bool
    /\ op.resizes > 0
    /\ \E key \in Keys : hist[key] = "back" /\ Get(Table, key) = "p1"

\* C11: in every state reached through InventorySystem construction,
\* insert_product, delete_product, edit_product and benchmark_search the
\* table and the array are mirrors: the SKUs in the array are the keys of
\* the table, each SKU is in the array once, len(array) == len(table),
\* table.get(sku) is the very object the array holds for that SKU; and a
\* generated key that already exists is skipped in both containers.
C11_Mirror ==
    \A inv \in {Inventory} :
      \A skus \in {ExistingKeys(inv)} :
        /\ {skus[i] : i \in 1..Len(skus)} = StoredKeys(inv.t)
        /\ \A i, j \in 1..Len(skus) : skus[i] = skus[j] => i = j
        /\ Len(inv.array) = TableLen(inv.t)
        /\ \A i \in 1..Len(skus) : Get(inv.t, skus[i]) = inv.array[i]
        /\ \A sku \in RandSkus :
              Contains(inv.t, sku) => BenchGenerate(inv, sku, NewStock) = inv
        /\ Len(bench.new_items) <= bench.done

\* a product was deleted, and the generation loop has drawn an SKU that an
\* earlier benchmark_search had stored: the turn added nothing
C11_Witness ==
    /\ pc = "gen"
    /\ bench.done = 1
    /\ bench.new_items = <<>>
    /\ ~Contains(Table, "SKU-0001")
    /\ Len(array) = Len(SampleSkus)
    /\ Len(products) = Len(SampleSkus) + 1

\* C12: for every query key and every reachable InventorySystem state,
\* table.get(q) and the linear scan of the array return the same result:
\* the same object on a hit, not-found (None) on a miss; so the results the
\* two timed passes of benchmark_search obtained agree query by query.
C12_LookupsAgree ==
    /\ \A inv \in {Inventory} :
          \A q \in Skus : Get(inv.t, q) = LinearSearch(inv, q)
    /\ pc = "report" => bench.hash_found = bench.array_found

\* both passes ran over a hit on a product made after the samples and a
\* miss, in a system from which a sample had been deleted
C12_Witness ==
    /\ pc = "report"
    /\ Len(bench.hash_found) = 2
    /\ bench.hash_found[1] = RefNames[Len(SampleSkus) + 1]
    /\ bench.array_found[2] = None
    /\ ~Contains(Table, "SKU-0001")

\* C13: the two timed passes of benchmark_search are read-only over one
\* shared query list: from the moment the query list is complete until
\* benchmark_search returns, the table (size, capacity, buckets) and the
\* array are as they were, and the array pass iterates the same key
\* sequence as the hash pass.
C13_PassesReadOnly ==
    /\ pc \in {"hash", "array", "report"} =>
          /\ bench.snap = [t |-> Table, array |-> array]
          /\ Len(bench.queries) = bench.trials
    /\ pc \in {"array", "report"} => bench.hash_seen = bench.queries
    /\ pc = "report" => bench.array_seen = bench.hash_seen

\* both passes are over: two queries, a record was generated at the start
C13_Witness ==
    /\ pc = "report"
    /\ Len(bench.array_seen) = 2
    /\ bench.array_seen[1] # bench.array_seen[2]
    /\ Len(bench.new_items) = 1

\* C14: benchmark_search with any trials >= 1 and n_extra >= 0, from any
\* reachable InventorySystem state and for every outcome of the coin
\* flips, builds a query list of exactly `trials` keys and runs to
\* completion without raising.
C14_BenchCompletes ==
    /\ pc # "raised"
    /\ pc \in {"hash", "array", "report"} => Len(bench.queries) = bench.trials

\* C20: every miss key benchmark_search generated is absent from the table
\* and from the array at query time, whatever SKUs callers stored through
\* insert_product, so a query drawn from the miss pool is never a hit.
C20_MissKeysAbsent ==
    pc \in {"query", "hash", "array", "report"} =>
        \A i \in 1..Len(bench.miss_keys) :
            /\ Get(Table, bench.miss_keys[i]) = None
            /\ LinearSearch(Inventory, bench.miss_keys[i]) = None

\* C21: removeEdge(src, dst) returns True exactly when the edge src->dst
\* existed before the call, and then hasEdge(src, dst) is False afterwards;
\* otherwise it returns False; either way the vertex set and every other
\* edge are as before, and the call never raises, also when src or dst is
\* not a vertex.  SlowGramApp.unfollow returns what removeEdge returns.
C21_RemoveEdge ==
    /\ \A src \in Verts, dst \in Verts :
          \A rm \in {RemoveEdge(graph, src, dst)} :
             /\ ~rm.raised
             /\ rm.ret = HasEdge(graph, src, dst)
             /\ ~HasEdge(rm.g, src, dst)
             /\ DOMAIN rm.g = DOMAIN graph
             /\ \A a \in Verts, b \in Verts :
                   <<a, b>> # <<src, dst>> =>
                       HasEdge(rm.g, a, b) = HasEdge(graph, a, b)
             /\ ~rm.ret => rm.g = graph
    /\ gop.name \in {"removeEdge", "unfollow"} =>
          /\ ~gop.raised
          /\ ~HasEdge(graph, gop.src, gop.dst)

\* an unfollow removed an edge of a vertex that keeps another edge, while
\* one of the objects is not a vertex
C21_Witness ==
    /\ gop.name = "unfollow"
    /\ gret
    /\ gop.src \in DOMAIN graph
    /\ graph[gop.src] # {}
    /\ DOMAIN graph # Verts

\* C22: after construction and after every insert or delete returns, the
\* load factor is at most 0.75 (4*size <= 3*capacity): one doubling to
\* old_capacity*2+1 is enough to bring the table back under the threshold.
C22_LoadFactorBounded ==
    /\ 4 * size <= 3 * capacity
    /\ 4 * TableLen(Table) <= 3 * Len(buckets)

\* an insert has just resized a table that its new entry had pushed over
\* the threshold of the old capacity
C22_Witness ==
    /\ op.name = "insert"
    /\ op.resizes = 1
    /\ 4 * size > 3 * ((capacity - 1) \div 2)
    /\ 4 * size <= 3 * capacity

\* C23: one public insert call resizes at most once: while _resize
\* re-inserts the old entries the trigger does not fire again, so after any
\* insert the capacity is the old capacity or exactly old_capacity*2+1.
C23_AtMostOneResize ==
    [][op'.name = "insert" =>
          /\ op'.resizes <= 1
          /\ capacity' \in {capacity, capacity * 2 + 1}
          /\ op'.resizes = 1 <=> capacity' = capacity * 2 + 1]_vars

\* an insert with allow_update=False appended the fourth key and ran one
\* resize, from capacity 5 to 11
C23_Witness ==
    /\ op.name = "insert"
    /\ ~op.allow_update
    /\ ret.bool
    /\ op.resizes = 1
    /\ size = 4
    /\ capacity = 5 * 2 + 1

\* C25: between public operations every entry (key, value) is in the
\* bucket whose index is hash(key) mod the current capacity, also after a
\* resize changed the capacity; so get, delete and insert's duplicate
\* check find every stored key.
C25_EntriesInHomeBucket ==
    /\ \A p \in Entries(Table) :
          Index(Table, EntryAt(Table, p)[1]) + 1 = p[1]
    /\ \A key \in StoredKeys(Table) :
          FindKey(buckets[Index(Table, key) + 1], key) # 0

\* after a resize the entries lie in at least two buckets, and some key's
\* bucket index differs from the one it had at the old capacity
C25_Witness ==
    /\ op.resizes = 1
    /\ Cardinality({p[1] : p \in Entries(Table)}) >= 2
    /\ \E key \in StoredKeys(Table) :
          Hash(seed, key) % capacity # Hash(seed, key) % ((capacity - 1) \div 2)

\* C24: in each round of run_multithreaded_factorials with a non-empty
\* tuple of distinct numbers, under every interleaving of the workers, the
\* main thread computes first_start and last_end only after every worker
\* started in that round has written its timings and sizes entry: timings
\* and sizes then hold exactly one entry per number, and
\* first_start <= last_end.
C24_AllWorkersWrote ==
    /\ tpc # "raised"
    /\ tpc \in {"stats", "report"} =>
          /\ DOMAIN timings = {Tid(numbers[i]) : i \in 1..Len(numbers)}
          /\ DOMAIN sizes = {Tid(numbers[i]) : i \in 1..Len(numbers)}
          /\ Cardinality(DOMAIN timings) = Len(numbers)
    /\ tpc = "report" => first_start <= last_end

====
